---- MODULE Spec2Model ----
(***************************************************************************)
(* TalentScout hiring assistant: the conversation controller               *)
(* (TalentScoutAssistant.process_user_input, src/app/chat_logic.py) and    *)
(* the Streamlit session layer that drives it (main, src/app/main.py).     *)
(*                                                                         *)
(* Texts (user inputs, model replies, questions, technology names) are     *)
(* sequences of one-character strings, so that str.lower, the `in`         *)
(* substring test, str.split(',') and str.strip are computed.              *)
(* The hosted language model and the pydantic decoder are external: their  *)
(* results are nondeterministic choices over bounded sets of outcomes,     *)
(* including the outcome that the call raises.                             *)
(***************************************************************************)
EXTENDS Integers, Sequences, FiniteSets, TLC

\* ------------------------------------------------------------------ bounds
\* Information-gathering exchanges stored in the memory during one session.
MaxPairs == 2
\* Technologies in one decoded assessment.
MaxTechs == 2
\* Questions the model may return for one technology.
MaxQPerTech == 3
\* Total number of questions in one decoded assessment.
MaxQueue == 6
\* Direct invocations of process_user_input in the controller-level harness.
MaxCalls == 3
\* Exchanges stored in the memory in the long information gathering.
MaxLongPairs == 10

\* ConversationBufferWindowMemory(k=8)
K == 8

\* ------------------------------------------------------------------- texts
Min(a, b) == IF a < b THEN a ELSE b

\* str.lower on one character (the letters the model's texts use).
LowerChar(c) ==
  CASE c = "A" -> "a" [] c = "B" -> "b" [] c = "C" -> "c" [] c = "D" -> "d"
    [] c = "E" -> "e" [] c = "F" -> "f" [] c = "G" -> "g" [] c = "H" -> "h"
    [] c = "I" -> "i" [] c = "J" -> "j" [] c = "K" -> "k" [] c = "L" -> "l"
    [] c = "M" -> "m" [] c = "N" -> "n" [] c = "O" -> "o" [] c = "P" -> "p"
    [] c = "Q" -> "q" [] c = "R" -> "r" [] c = "S" -> "s" [] c = "T" -> "t"
    [] c = "U" -> "u" [] c = "V" -> "v" [] c = "W" -> "w" [] c = "X" -> "x"
    [] c = "Y" -> "y" [] c = "Z" -> "z" [] OTHER -> c

\* str.lower
Lower(s) == [i \in 1..Len(s) |-> LowerChar(s[i])]

\* needle in hay (Python substring test)
Contains(needle, hay) ==
  \E i \in 0..(Len(hay) - Len(needle)) :
    SubSeq(hay, i + 1, i + Len(needle)) = needle

\* str.strip (blanks)
RECURSIVE Strip(_)
Strip(s) ==
  IF s = <<>> THEN s
  ELSE IF Head(s) = " " THEN Strip(Tail(s))
  ELSE IF s[Len(s)] = " " THEN Strip(SubSeq(s, 1, Len(s) - 1))
  ELSE s

\* str.split(',')
RECURSIVE Split(_)
Split(s) ==
  IF \A i \in 1..Len(s) : s[i] # ","
  THEN <<s>>
  ELSE LET i == CHOOSE j \in 1..Len(s) :
                  s[j] = "," /\ \A h \in 1..(j - 1) : s[h] # ","
       IN <<SubSeq(s, 1, i - 1)>> \o Split(SubSeq(s, i + 1, Len(s)))

\* The exit words of process_user_input.
W_quit == <<"q", "u", "i", "t">>
W_bye == <<"b", "y", "e">>
W_exit == <<"e", "x", "i", "t">>
W_end == <<"e", "n", "d">>
ExitWords == {W_quit, W_bye, W_exit, W_end}

NextWord == <<"n", "e", "x", "t">>
MarkerPhrase == <<"t", "e", "c", "h", "n", "i", "c", "a", "l", " ", "a", "s", "s", "e", "s", "s", "m", "e", "n", "t", " ", "s", "t", "a", "g", "e">>

\* What an f-string renders for None.
NoneText == <<"N", "o", "n", "e">>

\* ------------------------------------------------------------- user inputs
In_quit == <<"q", "u", "i", "t">>
In_QUIT == <<"Q", "U", "I", "T">>
In_bye == <<"b", "y", "e">>
In_Bye == <<"B", "y", "e">>
In_exit == <<"e", "x", "i", "t">>
In_EXIT == <<"E", "X", "I", "T">>
In_end == <<"e", "n", "d">>
In_End == <<"E", "n", "d">>
In_Next == <<"N", "e", "x", "t">>
In_ok == <<"o", "k">>
In_quit_sp == <<"q", "u", "i", "t", " ">>
In_nextjs == <<"n", "e", "x", "t", "j", "s">>

\* What the candidate types in a session.
Inputs == {In_quit, In_Bye, In_Next, In_ok}
\* What a direct caller of process_user_input passes.
CallInputs ==
  {In_quit, In_QUIT, In_bye, In_Bye, In_exit, In_EXIT, In_end, In_End,
   In_Next, In_ok, In_quit_sp, In_nextjs}

\* ----------------------------------------------------------- model replies
Reply_marker == <<"t", "h", "e", " ", "T", "e", "c", "h", "n", "i", "c", "a", "l", " ", "A", "s", "s", "e", "s", "s", "m", "e", "n", "t", " ", "S", "t", "a", "g", "e", ".", " ", "t", "y", "p", "e", " ", "N", "E", "X", "T">>
Reply_plain == <<"E", "m", "a", "i", "l", "?">>
InfoReplies == {Reply_marker, Reply_plain}

Ext_two == <<"G", "o", ",", " ", "C">>
Ext_messy == <<" ", "G", "o", " ", ",", ",", " ", "C", ",">>
Ext_empty == <<>>
ExtractReplies == {Ext_two, Ext_messy, Ext_empty}

\* A model call either returns content or raises.
Raises == [ok |-> FALSE, content |-> <<>>]
Returns(text) == [ok |-> TRUE, content |-> text]
InfoOutcomes == {Returns(r) : r \in InfoReplies} \cup {Raises}
ExtractOutcomes == {Returns(r) : r \in ExtractReplies} \cup {Raises}

\* ------------------------------------------------------------- assessments
TechLetters == <<"a", "b", "c", "d">>
Digits == <<"1", "2", "3", "4", "5", "6", "7", "8", "9">>
\* The i-th question about technology t; TechQuestion.question is any str, the
\* empty string included.
QText(t, i) == <<TechLetters[t], Digits[i]>>
QList(t, n, b) == [i \in 1..n |-> IF i = b THEN <<>> ELSE QText(t, i)]
QLists(t) == {QList(t, n, b) : n \in 0..MaxQPerTech, b \in 0..2}

TechName(t) == <<TechLetters[t]>>
Entry(t, qs) == [tech |-> TechName(t), questions |-> qs]

RECURSIVE SumLen(_)
SumLen(a) == IF a = <<>> THEN 0 ELSE Len(Head(a).questions) + SumLen(Tail(a))

\* TechAssessment.assessment: Dict[str, List[TechQuestion]], in key order.
\* The schema states no bound on the length of a list.
Assessments ==
  {a \in UNION {{[t \in 1..n |-> Entry(t, QList(t, f[t][1], f[t][2]))] :
                    f \in [1..n -> (0..MaxQPerTech) \X (0..2)]} :
                n \in 0..MaxTechs} :
     SumLen(a) <= MaxQueue}

\* The generator's model call raises, or returns text that the parser
\* rejects, or returns text that decodes to an assessment.
GenRaises == [ok |-> FALSE, decodes |-> FALSE, assessment |-> <<>>]
GenUndecodable == [ok |-> TRUE, decodes |-> FALSE, assessment |-> <<>>]
GenDecoded(a) == [ok |-> TRUE, decodes |-> TRUE, assessment |-> a]
GenOutcomes == {GenRaises, GenUndecodable} \cup {GenDecoded(a) : a \in Assessments}

\* ------------------------------------------------------------------ states
\* main.py sets the labels of config.settings.State to these.
GREETING == "GREETING"
GATHER_INFO == "GATHER_INFO"
ASK_QUESTIONS == "ASK_QUESTIONS"
END == "END"
OtherLabel == "OTHER"
StateLabels == {GREETING, GATHER_INFO, ASK_QUESTIONS, END}
\* No (response, state) pair was returned: the call raised.
NoReturn == "NO_RETURN"

VARIABLES
  api_key,                 \* os.getenv("GEMINI_API_KEY")
  logic_agent,             \* st.session_state[State.LOGIC_AGENT]
  current_state,           \* st.session_state['current_state']
  memory,                  \* self.memory.chat_memory.messages
  tech_questions,          \* self.tech_questions (<<>> while unset)
  all_questions_list,      \* self.all_questions_list
  current_question_index,  \* self.current_question_index
  user_answers,            \* self.user_answers
  answered,                \* answer turns processed in ASK_QUESTIONS
  user_input,              \* argument of the last call
  arg_state,               \* current_state argument of the last call
  response,                \* text returned by the last call
  ret_state,               \* state returned by the last call
  calls,                   \* model calls made by the last call, in order
  tech_stack,              \* tech_stack local of the last call
  generated,               \* what _generate_technical_questions returned in it
  context,                 \* history put into the prompt of a model call in it
  ncalls                   \* direct invocations made by the harness

agent == <<memory, tech_questions, all_questions_list, current_question_index,
           user_answers>>
obs == <<user_input, arg_state, response, ret_state, calls, tech_stack, generated,
         context>>
vars == <<api_key, logic_agent, current_state, memory, tech_questions, all_questions_list,
          current_question_index, user_answers, answered, user_input,
          arg_state, response, ret_state, calls, tech_stack, generated, context,
          ncalls>>

\* ---------------------------------------------------------------- responses
Resp(kind, num, text) == [kind |-> kind, num |-> num, text |-> text]
\* _end_conversation
ClosingMessage == Resp("closing", 0, <<>>)
\* "I apologize, question generation failed. Ending conversation."
FailureMessage == Resp("generation_failed", 0, <<>>)
\* "I did not understand. Can you please repeat?"
NotUnderstood == Resp("not_understood", 0, <<>>)
\* f"Excellent. We have {n} questions. **Question 1:** {q}"
FirstQuestionMessage(n, q) == Resp("first_question", n, q)
\* f"Thank you for your answer. \n\n**Question {q_num}:** {q}"
NextQuestionMessage(q_num, q) == Resp("next_question", q_num, q)
\* the reply of the information-gathering chain
ChainReply(text) == Resp("chain", 0, text)
\* an exception left process_user_input
Raised == Resp("raised", 0, <<>>)
\* the greeting main.py shows before any input
Hello == Resp("hello", 0, <<>>)

Human(text) == [role |-> "human", content |-> text]
AI(text) == [role |-> "ai", content |-> text]

\* A memory without the window: the whole store is returned.
LoadMemory_Whole(buf) == buf

\* ConversationBufferWindowMemory.load_memory_variables({})['history']
LoadMemory(buf) == SubSeq(buf, Len(buf) - Min(Len(buf), 2 * K) + 1, Len(buf))

\* A key numbered from 0: one less than the cursor.
QKey_ZeroBased(i) == <<"Q", i - 1>>

\* A key that ignores the cursor.
QKey_Fixed(i) == <<"Q", 0>>

\* f"Q{self.current_question_index}"
QKey(i) == <<"Q", i>>

\* self.user_answers: Dict[str, str] = {}
EmptyDict == [k \in {} |-> <<>>]

\* ------------------------------------------------------------ the start-up
\* What os.getenv("GEMINI_API_KEY") gives: None, "" or a non-empty key.
KeyValues == {"unset", "empty", "set"}

\* The key test that takes every value but None for a key.
HasKey_NotNone(v) == v # "unset"

\* not os.getenv("GEMINI_API_KEY") is false: the value is a non-empty string
HasKey(v) == v = "set"

\* TalentScoutAssistant(): the object, or the ValueError of __init__
Construct(v) == IF HasKey(v) THEN "assistant" ELSE "ValueError"

\* initialize_session_state, step 1: the constructor's ValueError leaves None
InitializeAgent(v) ==
  IF Construct(v) = "ValueError" THEN "None" ELSE Construct(v)

\* A session-state key that was never written.
Unset == "UNSET"

\* main up to the input box: it returns before initialize_session_state when
\* the key is missing, and before the conversation when the agent is None
Serving == HasKey(api_key) /\ logic_agent \notin {Unset, "None"}

\* What main shows below the title.
Screen ==
  IF ~HasKey(api_key) THEN "key_error"
  ELSE IF logic_agent = "None" THEN "init_error"
  ELSE IF current_state # END THEN "chat_input"
  ELSE "concluded"

Init ==
  /\ api_key \in KeyValues
  /\ logic_agent = IF HasKey(api_key) THEN InitializeAgent(api_key) ELSE Unset
  /\ current_state = IF HasKey(api_key) THEN GREETING ELSE Unset
  /\ memory = <<>>
  /\ tech_questions = <<>>
  /\ all_questions_list = <<>>
  /\ current_question_index = 0
  /\ user_answers = EmptyDict
  /\ answered = 0
  /\ user_input = <<>>
  /\ arg_state = GREETING
  /\ response = Hello
  /\ ret_state = NoReturn
  /\ calls = <<>>
  /\ tech_stack = <<>>
  /\ generated = "not_called"
  /\ context = <<>>
  /\ ncalls = 0

\* ------------------------------------------------------- the controller
\* The exit test with "bye" missing from the list.
IsExitWord_NoBye(u) == Lower(u) \in {W_quit, W_exit, W_end}

\* The exit test without .lower().
IsExitWord_CaseSensitive(u) == u \in ExitWords

\* user_input.lower() in ["quit", "bye", "exit", "end"]
IsExitWord(u) == Lower(u) \in ExitWords

\* history[-1].content.lower() if history else ""
HistoryStr(buf) ==
  LET history == LoadMemory(buf)
  IN IF history # <<>> THEN Lower(history[Len(history)].content) ELSE <<>>

\* The confirmation test without the look at the conversation history.
Confirms_NoMarker(u, buf) == Contains(NextWord, Lower(u))

\* The confirmation test with `or` for `and`.
Confirms_Either(u, buf) ==
  Contains(NextWord, Lower(u)) \/ Contains(MarkerPhrase, HistoryStr(buf))

\* "next" in user_input.lower() and "technical assessment stage" in history_str
Confirms(u, buf) ==
  Contains(NextWord, Lower(u)) /\ Contains(MarkerPhrase, HistoryStr(buf))

\* A fallback list that lost its second element.
Fallback_Short == << <<"P", "y", "t", "h", "o", "n">> >>

\* return ["Python", "SQL"]
Fallback == << <<"P", "y", "t", "h", "o", "n">>, <<"S", "Q", "L">> >>

NonEmpty(t) == t # <<>>

\* _extract_tech_stack_from_history, given the outcome of its model call
ExtractTechStack(o) ==
  IF o.ok
  THEN LET parts == Split(o.content)
       IN SelectSeq([i \in 1..Len(parts) |-> Strip(parts[i])], NonEmpty)
  ELSE Fallback

\* The flattening with the technologies taken in reverse order.
RECURSIVE Flatten_Reversed(_)
Flatten_Reversed(a) ==
  IF a = <<>> THEN <<>> ELSE Flatten_Reversed(Tail(a)) \o Head(a).questions

\* for questions in self.tech_questions.values(): extend([q.question ...])
RECURSIVE Flatten(_)
Flatten(a) ==
  IF a = <<>> THEN <<>> ELSE Head(a).questions \o Flatten(Tail(a))

\* The generator with `return self.tech_questions` in its except clause.
GenerateQuestions_ReturnsStale(queue, tq, g) ==
  IF g.decodes
  THEN [ret |-> "assessment", queue |-> queue \o Flatten(g.assessment),
        tech_questions |-> g.assessment]
  ELSE [ret |-> "assessment", queue |-> queue, tech_questions |-> tq]

\* _generate_technical_questions after its model call returned outcome g:
\* the value it returns and the fields it leaves.
GenerateQuestions(queue, tq, g) ==
  IF g.decodes
  THEN [ret |-> "assessment", queue |-> queue \o Flatten(g.assessment),
        tech_questions |-> g.assessment]
  ELSE [ret |-> "None", queue |-> queue, tech_questions |-> tq]

\* _get_next_question with the bound test dropped: the cursor advances even
\* when it already stands at the end of the queue
GetNextQuestion_PastEnd(queue, idx) ==
  IF idx < Len(queue)
  THEN [none |-> FALSE, question |-> queue[idx + 1], index |-> idx + 1]
  ELSE [none |-> TRUE, question |-> NoneText, index |-> idx + 1]

\* _get_next_question without the increment of the cursor.
GetNextQuestion_NoAdvance(queue, idx) ==
  IF idx < Len(queue)
  THEN [none |-> FALSE, question |-> queue[idx + 1], index |-> idx]
  ELSE [none |-> TRUE, question |-> NoneText, index |-> idx]

\* _get_next_question: the value returned and the cursor it leaves.
GetNextQuestion(queue, idx) ==
  IF idx < Len(queue)
  THEN [none |-> FALSE, question |-> queue[idx + 1], index |-> idx + 1]
  ELSE [none |-> TRUE, question |-> NoneText, index |-> idx]

\* Python truthiness of the value _get_next_question returned.
Truthy(nq) == ~nq.none /\ nq.question # <<>>

\* self.user_answers[key] = value
Put(d, key, value) ==
  [k \in DOMAIN d \cup {key} |-> IF k = key THEN value ELSE d[k]]

\* One call of the hosted model: which call site made it, whether it returned
\* (ok) or raised, and whether assessment_parser.parse accepts what it returned
\* (only the generator's reply is parsed).
ModelCall(site, ok, decodable) ==
  [site |-> site, ok |-> ok, decodable |-> decodable]

Observe(u, cs, resp, rs, cl, ts, gen) ==
  /\ user_input' = u
  /\ arg_state' = cs
  /\ response' = resp
  /\ ret_state' = rs
  /\ calls' = cl
  /\ tech_stack' = ts
  /\ generated' = gen

\* if user_input.lower() in [...]: return self._end_conversation(...), State.END
ExitBranch(u, cs) ==
  /\ IsExitWord(u)
  /\ UNCHANGED <<agent, answered>>
  /\ context' = <<>>
  /\ Observe(u, cs, ClosingMessage, END, <<>>, <<>>, "not_called")

\* self.info_chain.run(...) followed by a return of the state that was
\* passed in place of GATHER_INFO
InfoChainRun_KeepsState(u, cs, o) ==
  /\ context' = LoadMemory(memory)
  /\ memory' = IF o.ok THEN memory \o <<Human(u), AI(o.content)>> ELSE memory
  /\ UNCHANGED <<tech_questions, all_questions_list, current_question_index,
                 user_answers, answered>>
  /\ IF o.ok
     THEN Observe(u, cs, ChainReply(o.content), cs,
                  <<ModelCall("info", TRUE, FALSE)>>, <<>>, "not_called")
     ELSE Observe(u, cs, Raised, NoReturn, <<ModelCall("info", FALSE, FALSE)>>, <<>>,
                  "not_called")

\* self.info_chain.run(user_input=user_input): the chain calls the model and
\* then saves the exchange to the memory; nothing is saved when the call raises.
InfoChainRun(u, cs, o) ==
  /\ context' = LoadMemory(memory)
  /\ memory' = IF o.ok THEN memory \o <<Human(u), AI(o.content)>> ELSE memory
  /\ UNCHANGED <<tech_questions, all_questions_list, current_question_index,
                 user_answers, answered>>
  /\ IF o.ok
     THEN Observe(u, cs, ChainReply(o.content), GATHER_INFO,
                  <<ModelCall("info", TRUE, FALSE)>>, <<>>, "not_called")
     ELSE Observe(u, cs, Raised, NoReturn, <<ModelCall("info", FALSE, FALSE)>>, <<>>,
                  "not_called")

\* if current_state == State.GREETING
\* (replies: the outcomes the chain's model call may have)
GreetingBranch(u, cs, replies) ==
  /\ ~IsExitWord(u)
  /\ cs = GREETING
  /\ \E o \in replies : InfoChainRun(u, cs, o)

\* elif current_state == State.GATHER_INFO, no confirmation
GatherBranch(u, cs, replies) ==
  /\ ~IsExitWord(u)
  /\ cs = GATHER_INFO
  /\ ~Confirms(u, memory)
  /\ \E o \in replies : InfoChainRun(u, cs, o)

\* elif current_state == State.GATHER_INFO, confirmation
\* (extracts, gens: the outcomes the extractor's and the generator's model
\* call may have)
ConfirmBranch(u, cs, extracts, gens) ==
  /\ ~IsExitWord(u)
  /\ cs = GATHER_INFO
  /\ Confirms(u, memory)
  /\ \E ex \in extracts, g \in gens :
     LET ts == ExtractTechStack(ex)
         made == <<ModelCall("extract", ex.ok, FALSE),
                   ModelCall("generate", g.ok, g.decodes)>>
         gen == GenerateQuestions(all_questions_list, tech_questions, g)
         nq == GetNextQuestion(gen.queue, current_question_index)
     IN /\ UNCHANGED <<memory, user_answers, answered>>
        /\ context' = LoadMemory(memory)
        /\ IF ~g.ok
           THEN /\ UNCHANGED <<tech_questions, all_questions_list,
                               current_question_index>>
                /\ Observe(u, cs, Raised, NoReturn, made, ts, "raised")
           ELSE /\ tech_questions' = gen.tech_questions
                /\ all_questions_list' = gen.queue
                /\ IF gen.queue # <<>>
                   THEN /\ current_question_index' = nq.index
                        /\ Observe(u, cs,
                                   FirstQuestionMessage(Len(gen.queue), nq.question),
                                   ASK_QUESTIONS, made, ts, gen.ret)
                   ELSE /\ current_question_index' = current_question_index
                        /\ Observe(u, cs, FailureMessage, END, made, ts, gen.ret)

\* elif current_state == State.ASK_QUESTIONS
AnswerBranch(u, cs) ==
  /\ ~IsExitWord(u)
  /\ cs = ASK_QUESTIONS
  /\ LET nq == GetNextQuestion(all_questions_list, current_question_index)
         q_num == nq.index + 1
     IN /\ user_answers' = Put(user_answers, QKey(current_question_index), u)
        /\ current_question_index' = nq.index
        /\ answered' = answered + 1
        /\ UNCHANGED <<memory, tech_questions, all_questions_list>>
        /\ context' = <<>>
        /\ IF Truthy(nq)
           THEN Observe(u, cs, NextQuestionMessage(q_num, nq.question),
                        ASK_QUESTIONS, <<>>, <<>>, "not_called")
           ELSE Observe(u, cs, ClosingMessage, END, <<>>, <<>>, "not_called")

\* else: return "I did not understand...", current_state, with the start
\* label returned in place of the label passed
OtherBranch_Restart(u, cs) ==
  /\ ~IsExitWord(u)
  /\ cs \notin {GREETING, GATHER_INFO, ASK_QUESTIONS}
  /\ UNCHANGED <<agent, answered>>
  /\ context' = <<>>
  /\ Observe(u, cs, NotUnderstood, GREETING, <<>>, <<>>, "not_called")

\* else: return "I did not understand...", current_state
OtherBranch(u, cs) ==
  /\ ~IsExitWord(u)
  /\ cs \notin {GREETING, GATHER_INFO, ASK_QUESTIONS}
  /\ UNCHANGED <<agent, answered>>
  /\ context' = <<>>
  /\ Observe(u, cs, NotUnderstood, cs, <<>>, <<>>, "not_called")

\* ------------------------------------------------------- the session layer
\* main: st.session_state['current_state'] = new_state; when the call raised
\* the assignment is not reached and the caller keeps the state it passed
StoreState ==
  current_state' = IF ret_state' = NoReturn THEN arg_state' ELSE ret_state'

\* main: input is accepted only while current_state != State.END
Accepting == current_state # END

ExitTurn ==
  /\ Serving
  /\ Accepting
  /\ \E u \in Inputs : ExitBranch(u, current_state)
  /\ StoreState
  /\ UNCHANGED <<api_key, logic_agent>>
  /\ UNCHANGED ncalls

GreetingTurn ==
  /\ Serving
  /\ Accepting
  /\ Len(memory) < 2 * MaxPairs
  /\ \E u \in Inputs : GreetingBranch(u, current_state, InfoOutcomes)
  /\ StoreState
  /\ UNCHANGED <<api_key, logic_agent>>
  /\ UNCHANGED ncalls

GatherTurn ==
  /\ Serving
  /\ Accepting
  /\ Len(memory) < 2 * MaxPairs
  /\ \E u \in Inputs : GatherBranch(u, current_state, InfoOutcomes)
  /\ StoreState
  /\ UNCHANGED <<api_key, logic_agent>>
  /\ UNCHANGED ncalls

ConfirmTurn ==
  /\ Serving
  /\ Accepting
  /\ \E u \in Inputs :
       ConfirmBranch(u, current_state, ExtractOutcomes, GenOutcomes)
  /\ StoreState
  /\ UNCHANGED <<api_key, logic_agent>>
  /\ UNCHANGED ncalls

AnswerTurn ==
  /\ Serving
  /\ Accepting
  /\ \E u \in Inputs : AnswerBranch(u, current_state)
  /\ StoreState
  /\ UNCHANGED <<api_key, logic_agent>>
  /\ UNCHANGED ncalls

Next == ExitTurn \/ GreetingTurn \/ GatherTurn \/ ConfirmTurn \/ AnswerTurn

Spec == Init /\ [][Next]_vars

\* ------------------------------------- process_user_input called directly
CallLabels == StateLabels \cup {OtherLabel}

\* Outcomes of the extractor's and of the generator's call that the direct
\* caller's model produces.
CallExtractOutcomes == {Returns(Ext_messy), Raises}
CallGenOutcomes ==
  {GenRaises, GenUndecodable, GenDecoded(<<>>),
   GenDecoded(<<Entry(1, QList(1, 1, 0)), Entry(2, QList(2, 2, 2))>>)}

CallExit ==
  /\ Construct(api_key) = "assistant"
  /\ ncalls < MaxCalls
  /\ \E u \in CallInputs, cs \in CallLabels : ExitBranch(u, cs)
  /\ StoreState
  /\ UNCHANGED <<api_key, logic_agent>>
  /\ ncalls' = ncalls + 1

CallGreeting ==
  /\ Construct(api_key) = "assistant"
  /\ ncalls < MaxCalls
  /\ \E u \in CallInputs, cs \in CallLabels :
       GreetingBranch(u, cs, InfoOutcomes)
  /\ StoreState
  /\ UNCHANGED <<api_key, logic_agent>>
  /\ ncalls' = ncalls + 1

CallGather ==
  /\ Construct(api_key) = "assistant"
  /\ ncalls < MaxCalls
  /\ \E u \in CallInputs, cs \in CallLabels :
       GatherBranch(u, cs, InfoOutcomes)
  /\ StoreState
  /\ UNCHANGED <<api_key, logic_agent>>
  /\ ncalls' = ncalls + 1

CallConfirm ==
  /\ Construct(api_key) = "assistant"
  /\ ncalls < MaxCalls
  /\ \E u \in CallInputs, cs \in CallLabels :
       ConfirmBranch(u, cs, CallExtractOutcomes, CallGenOutcomes)
  /\ StoreState
  /\ UNCHANGED <<api_key, logic_agent>>
  /\ ncalls' = ncalls + 1

CallAnswer ==
  /\ Construct(api_key) = "assistant"
  /\ ncalls < MaxCalls
  /\ \E u \in CallInputs, cs \in CallLabels : AnswerBranch(u, cs)
  /\ StoreState
  /\ UNCHANGED <<api_key, logic_agent>>
  /\ ncalls' = ncalls + 1

CallOther ==
  /\ Construct(api_key) = "assistant"
  /\ ncalls < MaxCalls
  /\ \E u \in CallInputs, cs \in CallLabels : OtherBranch(u, cs)
  /\ StoreState
  /\ UNCHANGED <<api_key, logic_agent>>
  /\ ncalls' = ncalls + 1

NextCall ==
  CallExit \/ CallGreeting \/ CallGather \/ CallConfirm \/ CallAnswer \/ CallOther

SpecCall == Init /\ [][NextCall]_vars

\* ------------------------------------------- a long information gathering
\* A session whose candidate answers In_ok while information is gathered,
\* confirms with In_Next and leaves with In_quit, followed until the store
\* holds more pairs than the window of the memory.
LongReplies == {Returns(r) : r \in InfoReplies}

LongExitTurn ==
  /\ Serving
  /\ Accepting
  /\ ExitBranch(In_quit, current_state)
  /\ StoreState
  /\ UNCHANGED <<api_key, logic_agent>>
  /\ UNCHANGED ncalls

LongGreetingTurn ==
  /\ Serving
  /\ Accepting
  /\ GreetingBranch(In_ok, current_state, LongReplies)
  /\ StoreState
  /\ UNCHANGED <<api_key, logic_agent>>
  /\ UNCHANGED ncalls

LongGatherTurn ==
  /\ Serving
  /\ Accepting
  /\ Len(memory) < 2 * MaxLongPairs
  /\ GatherBranch(In_ok, current_state, LongReplies)
  /\ StoreState
  /\ UNCHANGED <<api_key, logic_agent>>
  /\ UNCHANGED ncalls

LongConfirmTurn ==
  /\ Serving
  /\ Accepting
  /\ ConfirmBranch(In_Next, current_state, CallExtractOutcomes, CallGenOutcomes)
  /\ StoreState
  /\ UNCHANGED <<api_key, logic_agent>>
  /\ UNCHANGED ncalls

NextLong == LongExitTurn \/ LongGreetingTurn \/ LongGatherTurn \/ LongConfirmTurn

SpecLong == Init /\ [][NextLong]_vars

\* ================================================================== claims
\* The inputs that equal an exit word when case is ignored, written out.
ExitInputs ==
  {In_quit, In_QUIT, In_bye, In_Bye, In_exit, In_EXIT, In_end, In_End}

\* The last stored assistant turn announces the assessment stage.
MarkerAnnounced ==
  /\ memory # <<>>
  /\ memory[Len(memory)].role = "ai"
  /\ Contains(MarkerPhrase, Lower(memory[Len(memory)].content))

SaysNext(u) == Contains(NextWord, Lower(u))

\* The confirmation branch ran in the step: the extractor's and then the
\* generator's model call were made.
Confirmed ==
  /\ Len(calls) = 2
  /\ calls[1].site = "extract"
  /\ calls[2].site = "generate"

\* C1: whatever state label is passed (GREETING, GATHER_INFO, ASK_QUESTIONS,
\* END or another label) and whatever the agent holds, a call whose input is
\* an exit word in any letter case returns the closing message and END, and
\* nothing else of the controller runs: no model call is made and the memory,
\* the queue, the cursor and the answers are left as they were.
C1_ExitOverride ==
  [][user_input' \in ExitInputs /\ ncalls' = ncalls + 1
       => /\ response' = ClosingMessage
          /\ ret_state' = END
          /\ current_state' = END
          /\ calls' = <<>>
          /\ generated' = "not_called"
          /\ UNCHANGED <<agent, answered>>]_vars

\* An upper-case exit word passed with ASK_QUESTIONS while a question of a
\* non-empty queue is pending.
C1_Witness ==
  /\ user_input = In_QUIT
  /\ arg_state = ASK_QUESTIONS
  /\ all_questions_list # <<>>
  /\ current_question_index = 1
  /\ DOMAIN user_answers = {}
  /\ ret_state = END

\* C2: a call with GATHER_INFO and a non-exit input enters the confirmation
\* branch (extraction, then generation) exactly when the last stored
\* assistant turn contains the marker phrase and the input contains "next",
\* both ignoring case.  Without confirmation (one condition alone, or an
\* empty history) the state after the turn is GATHER_INFO; with it, the
\* state after the turn is ASK_QUESTIONS or END whenever the turn returns.
C2_ConfirmIffBoth ==
  [][arg_state' = GATHER_INFO /\ user_input' \notin ExitInputs
       /\ ncalls' = ncalls + 1
       => LET both == MarkerAnnounced /\ SaysNext(user_input')
          IN /\ Confirmed' <=> both
             /\ ~both => current_state' = GATHER_INFO
             /\ both /\ ret_state' # NoReturn
                  => current_state' \in {ASK_QUESTIONS, END}]_vars

\* A confirmation that led to the first question.
C2_Witness ==
  /\ arg_state = GATHER_INFO
  /\ user_input = In_Next
  /\ Confirmed
  /\ current_state = ASK_QUESTIONS

\* C3: for a queue of L >= 1 questions, the confirmation turn announces L
\* and presents the first element with state ASK_QUESTIONS; an answer turn
\* leaves the state ASK_QUESTIONS unless it is the L-th, which gives END and
\* the closing message; in END the session accepts no input.
C3_EndOnLastAnswer ==
  LET L == Len(all_questions_list)
  IN L >= 1 =>
       /\ Confirmed /\ ret_state # NoReturn
            => /\ response = FirstQuestionMessage(L, all_questions_list[1])
               /\ current_state = ASK_QUESTIONS
       /\ arg_state = ASK_QUESTIONS /\ user_input \notin ExitInputs
            => IF answered = L
               THEN current_state = END /\ response = ClosingMessage
               ELSE current_state = ASK_QUESTIONS
       /\ current_state = END => ~ENABLED Next

\* C4 as stated: with M answer turns processed, the cursor equals M.
C4_CursorEqualsAnswered ==
  answered <= Len(all_questions_list) => current_question_index = answered

\* C4, amended: the cursor counts the questions presented.  It is 0 while no
\* queue exists, and min(M + 1, L) once a queue of L >= 1 questions exists and
\* M answer turns have been processed.
C4_CursorCountsPresented ==
  IF all_questions_list = <<>>
  THEN current_question_index = 0 /\ answered = 0
  ELSE /\ answered <= Len(all_questions_list)
       /\ current_question_index = Min(answered + 1, Len(all_questions_list))

\* Two answers given, the third question pending.
C4_Witness ==
  /\ current_state = ASK_QUESTIONS
  /\ answered = 2
  /\ current_question_index = 3
  /\ Len(all_questions_list) >= 4

\* C5: an answer turn (ASK_QUESTIONS, non-exit input) returns the next queue
\* element and stays in ASK_QUESTIONS when the cursor is below the queue
\* length before the step, and returns the closing message with END exactly
\* when the cursor equals the queue length.
C5_NextQuestionOrClose ==
  [][current_state = ASK_QUESTIONS /\ arg_state' = ASK_QUESTIONS
       /\ user_input' \notin ExitInputs
       => IF current_question_index < Len(all_questions_list)
          THEN /\ response'.kind = "next_question"
               /\ response'.text = all_questions_list[current_question_index + 1]
               /\ current_state' = ASK_QUESTIONS
          ELSE /\ response' = ClosingMessage
               /\ current_state' = END]_vars

\* C6: an answer turn stores its input, unmodified, under the key "Q<cursor>"
\* of the cursor before the turn, and no step changes or removes an entry the
\* answer mapping already holds.
C6_AnswersVerbatim ==
  [][/\ current_state = ASK_QUESTIONS /\ user_input' \notin ExitInputs
          => LET key == <<"Q", current_question_index>>
             IN /\ key \in DOMAIN user_answers'
                /\ user_answers'[key] = user_input'
     /\ \A k \in DOMAIN user_answers :
          k \in DOMAIN user_answers' /\ user_answers'[k] = user_answers[k]]_vars

\* Two different answers stored under the keys of the first two questions.
C6_Witness ==
  /\ answered = 2
  /\ DOMAIN user_answers = {<<"Q", 1>>, <<"Q", 2>>}
  /\ user_answers[<<"Q", 1>>] = In_Next
  /\ user_answers[<<"Q", 2>>] = In_ok

\* C7: after a generation that decoded, every technology of the assessment
\* has between 3 and 5 questions and the queue length lies in [3N, 5N] for
\* its N technologies; ASK_QUESTIONS is never entered with another queue.
C7_ThreeToFivePerTech ==
  LET N == Len(tech_questions)
      L == Len(all_questions_list)
  IN /\ generated = "assessment"
          => /\ \A t \in 1..N :
                  /\ Len(tech_questions[t].questions) >= 3
                  /\ Len(tech_questions[t].questions) <= 5
             /\ 3 * N <= L /\ L <= 5 * N
     /\ current_state = ASK_QUESTIONS => 3 * N <= L /\ L <= 5 * N

\* The queue holds, technology after technology in the assessment's order,
\* each technology's questions in their order, and nothing else.
QueueIsConcatenation ==
  /\ Len(all_questions_list) = SumLen(tech_questions)
  /\ \A t \in 1..Len(tech_questions) :
       \A i \in 1..Len(tech_questions[t].questions) :
         all_questions_list[SumLen(SubSeq(tech_questions, 1, t - 1)) + i]
           = tech_questions[t].questions[i]

\* C8: the queue is the concatenation of the assessment's question lists in
\* technology order (nothing dropped, duplicated or reordered); it changes
\* only from empty, in a confirmation turn whose generation decoded, so it is
\* built at most once in a session and never modified afterwards.
C8_QueueBuiltOnceInOrder ==
  [][/\ QueueIsConcatenation'
     /\ all_questions_list' # all_questions_list
          => /\ all_questions_list = <<>>
             /\ Confirmed'
             /\ generated' = "assessment"
     /\ all_questions_list # <<>>
          => UNCHANGED <<all_questions_list, tech_questions>>]_vars

\* A queue of 1 + 3 questions of two technologies, traversed to the end.
C8_Witness ==
  /\ Len(tech_questions) = 2
  /\ all_questions_list
       = <<QText(1, 1), QText(2, 1), QText(2, 2), QText(2, 3)>>
  /\ answered = 4
  /\ current_state = END

\* C9: when the extractor's model call raises, the tech stack handed to the
\* generator is exactly ["Python", "SQL"], and the turn goes on to the
\* generator's call: the extractor's failure does not end the turn.
C9_ExtractionFallback ==
  calls # <<>> /\ calls[1].site = "extract" /\ ~calls[1].ok
    => /\ tech_stack = << <<"P", "y", "t", "h", "o", "n">>, <<"S", "Q", "L">> >>
       /\ Len(calls) = 2
       /\ calls[2].site = "generate"
       /\ generated # "not_called"
       /\ calls[2].ok => ret_state # NoReturn

\* The extraction failed and the turn still led to the first question.
C9_Witness ==
  /\ Confirmed
  /\ ~calls[1].ok
  /\ current_state = ASK_QUESTIONS
  /\ response.kind = "first_question"

\* C10: when the generator's reply does not decode, the generator returns
\* None, the queue stays empty, the turn returns the failure message with
\* END, and there is one generator call and no further turn; the turn returns
\* the failure message with END whenever the queue is empty after generation.
C10_DecodeFailureEnds ==
  /\ Confirmed /\ calls[2].ok /\ ~calls[2].decodable
       => /\ generated = "None"
          /\ all_questions_list = <<>>
          /\ response = FailureMessage
          /\ current_state = END
          /\ ~ENABLED Next
  /\ Confirmed /\ calls[2].ok /\ all_questions_list = <<>>
       => response = FailureMessage /\ current_state = END

\* The reply did not decode and the session ended with the failure message.
C10_Witness ==
  /\ Confirmed
  /\ calls[2].ok
  /\ ~calls[2].decodable
  /\ response = FailureMessage
  /\ current_state = END

\* C11: when the model call made inside the assessment generator raises, the
\* generator reports failure (it returns None) instead of raising, and the
\* turn returns the failure message with END: no exception escapes
\* process_user_input.
C11_GeneratorRaiseReported ==
  Confirmed /\ ~calls[2].ok
    => /\ generated = "None"
       /\ ret_state = END
       /\ response = FailureMessage
       /\ current_state = END

\* C12: END is terminal. A call of process_user_input that is passed END
\* returns END for every input, with the closing message when the input is an
\* exit word and the "did not understand" message otherwise, and it makes no
\* model call and leaves the agent as it was; so a caller that stores the
\* returned state and holds END keeps END. The session layer takes no turn
\* while the state it stores is END.
C12_EndIsTerminal ==
  /\ [](current_state = END => ~ENABLED Next)
  /\ [][arg_state' = END
          => /\ ret_state' = END
             /\ current_state' = END
             /\ calls' = <<>>
             /\ UNCHANGED agent
             /\ response' = IF user_input' \in ExitInputs
                            THEN ClosingMessage
                            ELSE NotUnderstood]_vars

\* A call with END and an input that is no exit word returned END with the
\* "did not understand" message, after an earlier call had ended the session.
C12_Witness ==
  /\ arg_state = END
  /\ user_input = In_Next
  /\ response = NotUnderstood
  /\ ret_state = END
  /\ current_state = END
  /\ ncalls >= 2

\* C13: in every state of a session the cursor lies between 0 and the length
\* of the queue, and no turn decreases the cursor.
C13_CursorWithinQueue ==
  /\ [](/\ 0 <= current_question_index
        /\ current_question_index <= Len(all_questions_list))
  /\ [][current_question_index' >= current_question_index]_vars

\* The cursor stands at the end of a queue of two or more questions after
\* the last answer, the turn on which _get_next_question finds nothing left.
C13_Witness ==
  /\ Len(all_questions_list) >= 2
  /\ current_question_index = Len(all_questions_list)
  /\ answered = Len(all_questions_list)
  /\ arg_state = ASK_QUESTIONS
  /\ current_state = END

\* C14: a turn makes at most two model calls. It makes two exactly when it
\* is the confirmation turn (state GATHER_INFO, an input that is no exit word
\* and contains "next", the assessment stage announced), and then the first
\* call is the extractor's and the second the generator's; every other turn
\* makes at most one call, the information-gathering chain's; a turn whose
\* input is an exit word makes none.
C14_CallsPerTurn ==
  [][LET confirmation ==
           /\ current_state = GATHER_INFO
           /\ user_input' \notin ExitInputs
           /\ SaysNext(user_input')
           /\ MarkerAnnounced
     IN /\ Len(calls') <= 2
        /\ Len(calls') = 2 <=> confirmation
        /\ confirmation => /\ calls'[1].site = "extract"
                           /\ calls'[2].site = "generate"
        /\ ~confirmation => \A i \in 1..Len(calls') : calls'[i].site = "info"
        /\ user_input' \in ExitInputs => calls' = <<>>]_vars

\* A confirmation turn made both calls, both returned, and the first
\* question was presented.
C14_Witness ==
  /\ Confirmed
  /\ calls[1].ok
  /\ calls[2].ok
  /\ arg_state = GATHER_INFO
  /\ ret_state = ASK_QUESTIONS

\* The most recent min(n, 8) pairs of a store of n pairs, oldest first.
RecentPairs(buf) ==
  LET n == Len(buf) \div 2
      m == IF n < 8 THEN n ELSE 8
  IN [i \in 1..(2 * m) |-> buf[2 * (n - m) + i]]

\* C15: the conversation history is append-only: a turn leaves the stored
\* messages as they were or adds one pair after them, the input and then the
\* reply of the information-gathering call, and nothing stored is edited or
\* removed. The history put into a model call's prompt and the history the
\* marker check reads are the most recent min(n, 8) of the n stored pairs,
\* in order: once more than 8 pairs are stored the oldest are left out.
C15_AppendOnlyWindowed ==
  [][/\ Len(memory') >= Len(memory)
     /\ SubSeq(memory', 1, Len(memory)) = memory
     /\ memory' # memory
          => /\ calls' = <<ModelCall("info", TRUE, FALSE)>>
             /\ memory' = memory \o
                  <<[role |-> "human", content |-> user_input'],
                    [role |-> "ai", content |-> response'.text]>>
     /\ calls' # <<>> => context' = RecentPairs(memory)
     /\ Confirmed'
          => /\ RecentPairs(memory) # <<>>
             /\ Contains(MarkerPhrase,
                  Lower(RecentPairs(memory)[Len(RecentPairs(memory))].content))]_vars

\* The information-gathering call that stored the 10th pair was handed pairs
\* 2 to 9 of the 9 stored before it; the oldest pair, whose reply differs
\* from the second pair's, was left out.
C15_Witness ==
  /\ Len(memory) = 2 * 10
  /\ calls = <<ModelCall("info", TRUE, FALSE)>>
  /\ context = SubSeq(memory, 3, 18)
  /\ context[2] # memory[2]

\* C16: when GEMINI_API_KEY is absent (unset or empty), constructing the
\* assistant fails with ValueError and the session holds no assistant object,
\* main shows the configuration error in place of the conversation, no input
\* is ever passed to process_user_input and the conversation state never
\* changes.
C16_NoKeyNoConversation ==
  /\ [](api_key \in {"unset", "empty"}
          => /\ Construct(api_key) = "ValueError"
             /\ logic_agent # "assistant"
             /\ Screen = "key_error"
             /\ user_input = <<>>
             /\ ret_state = NoReturn
             /\ calls = <<>>
             /\ current_state = Unset
             /\ ~ENABLED Next)
  /\ [][api_key \notin {"unset", "empty"}]_vars

\* The session was started with an empty key: main shows the key error and
\* nothing was constructed.
C16_Witness ==
  /\ api_key = "empty"
  /\ logic_agent = Unset
  /\ Screen = "key_error"

\* C17: every question is presented under its 1-based position in the
\* queue: the confirmation turn presents element 1 in the message whose
\* label is the literal "Question 1" (before any answer), and the
\* response to the M-th answer (1 <= M < L) presents element M + 1 labelled
\* "Question M + 1".
C17_LabelIsQueuePosition ==
  /\ response.kind = "first_question"
       => /\ answered = 0
          /\ response.text = all_questions_list[1]
  /\ response.kind = "next_question"
       => /\ answered < Len(all_questions_list)
          /\ response.num = answered + 1
          /\ response.text = all_questions_list[answered + 1]

\* The place of a state in the order GREETING, GATHER_INFO, ASK_QUESTIONS, END.
Rank(s) ==
  CASE s = "GREETING" -> 0
    [] s = "GATHER_INFO" -> 1
    [] s = "ASK_QUESTIONS" -> 2
    [] s = "END" -> 3

\* C18: the session's state moves only forward in the order GREETING,
\* GATHER_INFO, ASK_QUESTIONS, END and never returns to an earlier state.
\* ASK_QUESTIONS is entered only from GATHER_INFO, by a confirmation turn
\* that left a non-empty queue. A turn that process_user_input completes in
\* GREETING leaves GREETING, for END when the input is an exit word and for
\* GATHER_INFO otherwise, also when the input contains "next".
C18_ForwardOnly ==
  [][/\ Rank(current_state') >= Rank(current_state)
     /\ current_state' = "ASK_QUESTIONS" /\ current_state # "ASK_QUESTIONS"
          => /\ current_state = "GATHER_INFO"
             /\ Confirmed'
             /\ all_questions_list' # <<>>
     /\ current_state = "GREETING" /\ ret_state' # NoReturn
          => current_state' = IF user_input' \in ExitInputs
                              THEN "END"
                              ELSE "GATHER_INFO"]_vars

\* The first input contained "next" and moved the session from GREETING to
\* GATHER_INFO; nothing but the exchange was stored.
C18_Witness ==
  /\ arg_state = "GREETING"
  /\ user_input = In_Next
  /\ current_state = "GATHER_INFO"
  /\ Len(memory) = 2
  /\ all_questions_list = <<>>

\* C19: a session turn whose input is an exit word changes nothing but the
\* session's state, which becomes END, and what is displayed, the closing
\* message: the history, the queue, the cursor and the answers are as before
\* (in ASK_QUESTIONS the exit word is not stored as an answer and the cursor
\* does not advance), and no model call is made.
C19_ExitTurnFrame ==
  [][user_input' \in ExitInputs
       => /\ memory' = memory
          /\ all_questions_list' = all_questions_list
          /\ tech_questions' = tech_questions
          /\ current_question_index' = current_question_index
          /\ user_answers' = user_answers
          /\ answered' = answered
          /\ calls' = <<>>
          /\ context' = <<>>
          /\ response' = ClosingMessage
          /\ current_state' = END]_vars

\* The candidate left with "Bye" while the second of three questions was
\* waiting for its answer: one answer is stored and the cursor is still 2.
C19_Witness ==
  /\ user_input = In_Bye
  /\ arg_state = ASK_QUESTIONS
  /\ current_state = END
  /\ Len(all_questions_list) = 3
  /\ current_question_index = 2
  /\ answered = 1
  /\ DOMAIN user_answers = {<<"Q", 1>>}

\* The keys Q1 .. Qn.
KeysUpTo(n) == {<<"Q", i>> : i \in 1..n}

\* C20: the answers stay aligned with the questions. Whenever the session's
\* state is ASK_QUESTIONS the cursor lies between 1 and the length L of the
\* queue and the answers' keys are exactly Q1 .. Q(cursor - 1); the answer
\* turn that follows the presentation of the i-th question stores its input
\* under Qi and changes no other entry; and when END is reached by answering
\* every question the answers' keys are exactly Q1 .. QL.
C20_AnswersAligned ==
  /\ [](/\ current_state = ASK_QUESTIONS
             => /\ 1 <= current_question_index
                /\ current_question_index <= Len(all_questions_list)
                /\ DOMAIN user_answers = KeysUpTo(current_question_index - 1)
        /\ (/\ current_state = END
            /\ all_questions_list # <<>>
            /\ answered = Len(all_questions_list))
             => DOMAIN user_answers = KeysUpTo(Len(all_questions_list)))
  /\ [][/\ (answered' = answered + 1)
             => /\ <<"Q", answered + 1>> \in DOMAIN user_answers'
                /\ user_answers'[<<"Q", answered + 1>>] = user_input'
        /\ \A k \in DOMAIN user_answers :
             /\ k \in DOMAIN user_answers'
             /\ user_answers'[k] = user_answers[k]]_vars

\* All three questions were answered, "ok", "Next", "ok" in this order: END
\* was reached with the answers under Q1, Q2 and Q3.
C20_Witness ==
  /\ current_state = END
  /\ Len(all_questions_list) = 3
  /\ answered = 3
  /\ DOMAIN user_answers = {<<"Q", 1>>, <<"Q", 2>>, <<"Q", 3>>}
  /\ user_answers[<<"Q", 1>>] = In_ok
  /\ user_answers[<<"Q", 2>>] = In_Next
  /\ user_answers[<<"Q", 3>>] = In_ok

====
